---- MODULE Spec2Model ----
(***************************************************************************)
(* The test automation bridge of the Bevy example game.                    *)
(*                                                                         *)
(* Three kinds of threads share one crossbeam channel and one oneshot      *)
(* channel per command:                                                    *)
(*   - the tokio tasks of the server (the WebSocket server of              *)
(*     src/test_automation.rs or the GraphQL server of src/test_system),   *)
(*     which publish a TestMessage and await its oneshot receiver;         *)
(*   - the Bevy Update schedule: receive_test_messages drains the channel  *)
(*     and handle_button_interaction runs after it;                        *)
(*   - one std::thread per Screenshot message, which polls for the file    *)
(*     under an exponential backoff and then sends on the oneshot.         *)
(*                                                                         *)
(* Strings of the program that are not ASCII are written here in English.  *)
(* Time is in milliseconds and advances in steps of Quantum.               *)
(***************************************************************************)
EXTENDS Integers, Sequences, FiniteSets, TLC

VARIABLES
    srv,          \* the server thread: "off", "spawned", "listening", "panicked"
    srv2,         \* the thread of a second call of start_test_server, likewise
    transport,    \* which server the build runs: "ws" or "gql"
    queue,        \* the messages in TEST_COMMAND_CHANNEL, oldest first
    slot,         \* the oneshot channel made for each request id
    nextReq,      \* the id the next received request gets
    shots,        \* the number of Screenshot messages published so far
    conn,         \* the handler task of each connection
    inp,          \* history: the request received last
    out,          \* history: the response sent last
    answers,      \* history: the responses sent for each request id
    fpc,          \* the frame loop: "idle", in the while loop ("draining"),
                  \* or "panicked"
    interaction,  \* the Interaction component of the GameButton entities
    changed,      \* Changed<Interaction> as handle_button_interaction sees it
    ballCount,    \* the number of Ball entities
    buttonCount,  \* the number of GameButton entities
    waiter,       \* the backoff thread spawned for each Screenshot message
    fileExists,   \* the file system: which paths exist
    captures,     \* Screenshot entities spawned and not yet written to disk
    applied,      \* history: the request ids of the messages handled, in order
    clicks,       \* history: the number of Click messages handled
    drainSnap,    \* history: the queue when the running drain call began
    drainFrom     \* history: Len(applied) when the running drain call began

vars == <<srv, srv2, transport, queue, slot, nextReq, shots, conn, inp, out, answers, fpc,
          interaction, changed, ballCount, buttonCount, waiter, fileExists,
          captures, applied, clicks, drainSnap, drainFrom>>

----------------------------------------------------------------------------
(* Bounds of the model *)

MaxReqs == 2
MaxShots == 1
Quantum == 2500

Conns == {"c1", "c2"}
Paths == {"a.png"}
ReqIds == 1..MaxReqs

----------------------------------------------------------------------------
(* Constants of the program *)

COMMAND_TIMEOUT_SECS == 2
SCREENSHOT_TIMEOUT_SECS == 5
InitialIntervalMs == 50
MaxIntervalMs == 500
MaxElapsedSecs == 5
MultiplierNum == 3
MultiplierDen == 2
NumGameButtons == 1

Secs(n) == n * 1000

Max(a, b) == IF a > b THEN a ELSE b

----------------------------------------------------------------------------
(* serde_json values, as far as the handlers look at them *)

JMissing == [t |-> "missing", n |-> 0, s |-> ""]
JNum(v)  == [t |-> "num", n |-> v, s |-> ""]
JStr(v)  == [t |-> "str", n |-> 0, s |-> v]

\* A reading that takes whatever is no number as zero (unwrap_or(0.0) on
\* the Option): the properties of validation must tell it from the program
as_f64_or_zero(v) == IF v.t = "num" THEN <<v.n>> ELSE <<0>>

\* Value::as_f64: Some for a number, None otherwise (an Option is a
\* sequence of length at most one)
as_f64(v) == IF v.t = "num" THEN <<v.n>> ELSE <<>>

\* Value::as_str
as_str(v) == IF v.t = "str" THEN <<v.s>> ELSE <<>>

\* `x as f32`: integers above 2^24 lose their low bit
\* (to the even neighbour whose half is even), up to 2^25
F32Exact == 2^24
AsF32(v) ==
    IF v <= F32Exact THEN v
    ELSE LET r == v % 4
         IN  IF r = 1 THEN v - 1
             ELSE IF r = 3 THEN v + 1
             ELSE v

XS == {16777217}
YS == {300}

\* TestCommand.params: None, or an object with some of x, y, path
NoParams == [present |-> FALSE, x |-> JMissing, y |-> JMissing, path |-> JMissing]
Params(x, y, path) == [present |-> TRUE, x |-> x, y |-> y, path |-> path]

CoordParams ==
    {NoParams}
    \cup {Params(JNum(x), JNum(y), JMissing) : x \in XS, y \in YS}
    \cup {Params(JMissing, JNum(300), JMissing),
          Params(JNum(400), JMissing, JMissing),
          Params(JStr("400"), JNum(300), JMissing)}

PathParams ==
    {NoParams, Params(JMissing, JMissing, JMissing), Params(JMissing, JMissing, JNum(1))}
    \cup {Params(JMissing, JMissing, JStr(p)) : p \in Paths}

\* A text frame of the WebSocket: one that serde_json::from_str parses as
\* a TestCommand, or one that it does not
Unparsable == [parses |-> FALSE, action |-> "", params |-> NoParams]
TestCommand(action, params) == [parses |-> TRUE, action |-> action, params |-> params]
Texts ==
    {Unparsable}
    \cup {TestCommand(a, p) : a \in {"hover", "click"}, p \in CoordParams}
    \cup {TestCommand("screenshot", p) : p \in PathParams}
    \cup {TestCommand(a, NoParams) : a \in {"query_components", "drag", ""}}

\* A call of the GraphQL schema
GqlOps ==
    {[op |-> o, x |-> x, y |-> y, path |-> ""] : o \in {"hover", "click"}, x \in XS, y \in YS}
    \cup {[op |-> "screenshot", x |-> 0, y |-> 0, path |-> p] : p \in Paths}
    \cup {[op |-> "componentCounts", x |-> 0, y |-> 0, path |-> ""]}

----------------------------------------------------------------------------
(* TestMessage: the four variants, each with its oneshot sender *)

Hover(x, y, tx) == [type |-> "Hover", x |-> x, y |-> y, path |-> "", response |-> tx]
Click(x, y, tx) == [type |-> "Click", x |-> x, y |-> y, path |-> "", response |-> tx]
Screenshot(path, tx) == [type |-> "Screenshot", x |-> 0, y |-> 0, path |-> path, response |-> tx]
QueryComponents(tx) == [type |-> "QueryComponents", x |-> 0, y |-> 0, path |-> "", response |-> tx]

\* The values a oneshot carries: a bool, or the HashMap of counts. `tag` is
\* history: the request whose message was being handled when it was made.
NoCounts == [Ball |-> 0, Button |-> 0]
BoolValue(b, id) == [t |-> "bool", b |-> b, counts |-> NoCounts, tag |-> id]
CountsValue(ball, button, id) ==
    [t |-> "counts", b |-> FALSE, counts |-> [Ball |-> ball, Button |-> button], tag |-> id]

----------------------------------------------------------------------------
(* tokio::sync::oneshot *)

\* No channel has been made for the id
NoSlot == [made |-> FALSE, val |-> <<>>, rx |-> "none", tx |-> "none", writes |-> 0]

\* oneshot::channel(): the sender goes into the message, the receiver stays
\* with the handler
channel == [made |-> TRUE, val |-> <<>>, rx |-> "alive", tx |-> "held", writes |-> 0]

\* A sender that is dropped where the program sends on it: the properties
\* of a oneshot that is never left unwritten must tell it from the program
oneshot_drop(s, v) == [s EXCEPT !.tx = "dropped"]

\* A sender that is put aside and written later: the properties of when the
\* frame loop answers must tell it from the send of the program
oneshot_defer(s, v) == s

\* Sender::send consumes the sender; the value is stored and the result is
\* Ok unless the receiver is gone, and then the value comes back in Err
oneshot_send(s, v) ==
    [s EXCEPT !.val = IF s.rx = "alive" THEN <<v>> ELSE s.val,
              !.tx = "sent",
              !.writes = s.writes + 1]
send_is_ok(s) == s.rx = "alive"

\* `response.send(..).unwrap()`: the caller panics on Err. The properties of
\* a send to a receiver that is gone must tell it from the program
unwrap_result(ok) == IF ok THEN "running" ELSE "panicked"

\* `let _ = response.send(..)`: the result is dropped and the caller goes on
let_underscore(ok) == "running"

\* Dropping the receiver (the await returned and took the value, or its
\* future was dropped): a value in the channel goes with it
oneshot_close(s) == [s EXCEPT !.rx = "dropped", !.val = <<>>]

----------------------------------------------------------------------------
(* What an await of `tokio::time::timeout(secs, rx)` can return *)

Pending == [k |-> "pending", v |-> BoolValue(FALSE, 0)]
Elapsed == [k |-> "elapsed", v |-> BoolValue(FALSE, 0)]
RecvError == [k |-> "closed", v |-> BoolValue(FALSE, 0)]
Received(v) == [k |-> "value", v |-> v]

\* A wait that does not see the sender go and runs to its deadline: the
\* properties of a dropped sender must tell it from the program
timeout_unaware(secs, s, age) ==
    IF s.val # <<>> THEN Received(s.val[1])
    ELSE IF age >= Secs(secs) THEN Elapsed
    ELSE Pending

\* Timeout::poll polls the receiver first and the deadline second: a value
\* that is there wins over a deadline that has passed; a sender dropped
\* without sending is RecvError
timeout(secs, s, age) ==
    IF s.val # <<>> THEN Received(s.val[1])
    ELSE IF s.tx = "dropped" THEN RecvError
    ELSE IF age >= Secs(secs) THEN Elapsed
    ELSE Pending

----------------------------------------------------------------------------
(* src/test_automation.rs: the WebSocket handlers *)

\* TestResponse; `kind` tells it from an async_graphql::Error
TestResponse(success, message, data) ==
    [kind |-> "result", success |-> success, message |-> message, data |-> data]

error_response(message) == TestResponse(FALSE, message, <<>>)

\* What a handler has done when it first stops: it has returned a response,
\* or it has published `msg` and awaits the receiver for `secs`
Return(resp) == [returned |-> TRUE, resp |-> resp, msg |-> Hover(0, 0, 0), secs |-> 0]
Await(msg, secs) == [returned |-> FALSE, resp |-> error_response(""), msg |-> msg, secs |-> secs]

\* wait_for_bool_response: Ok(bool) or Err(text)
wait_for_bool_response(o) ==
    IF o.k = "value" THEN [ok |-> TRUE, b |-> o.v.b, err |-> ""]
    ELSE IF o.k = "closed" THEN [ok |-> FALSE, b |-> FALSE, err |-> "receive failed"]
    ELSE [ok |-> FALSE, b |-> FALSE, err |-> "timed out"]

wait_for_response(o, action_name) ==
    LET r == wait_for_bool_response(o)
    IN  IF r.ok /\ r.b THEN TestResponse(TRUE, action_name \o " done", <<>>)
        ELSE IF r.ok THEN error_response(action_name \o " failed")
        ELSE error_response(action_name \o ": " \o r.err)

\* the closure handle_command passes: TestMessage::Hover or TestMessage::Click
create_message(variant, x, y, tx) ==
    IF variant = "Hover" THEN Hover(x, y, tx) ELSE Click(x, y, tx)

\* handle_coordinate_command up to its await
handle_coordinate_command(params, variant, tx, action_name) ==
    IF ~params.present THEN Return(error_response("missing params"))
    ELSE LET x == as_f64(params.x)
             y == as_f64(params.y)
         IN  IF x = <<>> \/ y = <<>>
             THEN Return(error_response("missing x, y coordinates"))
             ELSE Await(create_message(variant, AsF32(x[1]), AsF32(y[1]), tx),
                        COMMAND_TIMEOUT_SECS)

\* handle_screenshot_command up to its await
handle_screenshot_command(params, tx) ==
    IF ~params.present THEN Return(error_response("missing params"))
    ELSE LET path == as_str(params.path)
         IN  IF path = <<>> THEN Return(error_response("missing path param"))
             ELSE Await(Screenshot(path[1], tx), SCREENSHOT_TIMEOUT_SECS)

\* the end of handle_screenshot_command
screenshot_response(o, path) ==
    LET r == wait_for_bool_response(o)
    IN  IF r.ok /\ r.b THEN TestResponse(TRUE, "screenshot done: " \o path, <<>>)
        ELSE IF r.ok THEN error_response("screenshot failed: " \o path)
        ELSE error_response(r.err)

\* handle_query_components up to its await
handle_query_components(tx) == Await(QueryComponents(tx), COMMAND_TIMEOUT_SECS)

\* the end of handle_query_components
query_response(o) ==
    IF o.k = "value" THEN TestResponse(TRUE, "component query done", <<o.v.counts>>)
    ELSE IF o.k = "closed" THEN error_response("receive response failed")
    ELSE error_response("query timed out")

\* A match whose last arm publishes instead of answering: the properties of
\* the unknown action must tell it from the program
handle_command_default_query(cmd, tx) ==
    IF cmd.action = "hover"
    THEN handle_coordinate_command(cmd.params, "Hover", tx, "hover")
    ELSE IF cmd.action = "click"
    THEN handle_coordinate_command(cmd.params, "Click", tx, "click")
    ELSE IF cmd.action = "screenshot"
    THEN handle_screenshot_command(cmd.params, tx)
    ELSE handle_query_components(tx)

\* handle_command up to the first await
handle_command(cmd, tx) ==
    IF cmd.action = "hover"
    THEN handle_coordinate_command(cmd.params, "Hover", tx, "hover")
    ELSE IF cmd.action = "click"
    THEN handle_coordinate_command(cmd.params, "Click", tx, "click")
    ELSE IF cmd.action = "screenshot"
    THEN handle_screenshot_command(cmd.params, tx)
    ELSE IF cmd.action = "query_components"
    THEN handle_query_components(tx)
    ELSE Return(error_response("unknown command: " \o cmd.action))

\* the rest of handle_command once the await has returned `o`
ws_response(type, path, o) ==
    IF type = "Hover" THEN wait_for_response(o, "hover")
    ELSE IF type = "Click" THEN wait_for_response(o, "click")
    ELSE IF type = "Screenshot" THEN screenshot_response(o, path)
    ELSE query_response(o)

----------------------------------------------------------------------------
(* src/test_system/graphql: the resolvers *)

\* async_graphql::Error: the response carries `errors` and no result object
GqlError(message) == [kind |-> "error", success |-> FALSE, message |-> message, data |-> <<>>]

\* CommandResult
CommandResult(success, message) == TestResponse(success, message, <<>>)

\* wait_bool
wait_bool(o, action_name) ==
    IF o.k = "elapsed" THEN GqlError(action_name \o ": timed out")
    ELSE IF o.k = "closed" THEN GqlError(action_name \o ": receive failed")
    ELSE CommandResult(o.v.b, IF o.v.b THEN action_name \o " done"
                                        ELSE action_name \o " failed")

\* MutationRoot::screenshot after the send
gql_screenshot(o, path) ==
    IF o.k = "elapsed" THEN GqlError("screenshot timed out")
    ELSE IF o.k = "closed" THEN GqlError("receive failed")
    ELSE CommandResult(o.v.b, IF o.v.b THEN "screenshot done: " \o path
                                        ELSE "screenshot failed: " \o path)

\* `count as i32`: a count above i32::MAX wraps to a negative number
I32Max == (2^30 - 1) * 2 + 1
AsI32(n) == IF n <= I32Max THEN n ELSE (n - I32Max) - I32Max - 2

ComponentCount(name, count) == [name |-> name, count |-> AsI32(count)]

\* A resolver that returns the entries in the order the HashMap gave them:
\* the properties of the order of the list must tell it from the program
unsorted(results) == results

\* results.sort_by(|a, b| a.name.cmp(&b.name)) on the two entries
sort_by_name(results) ==
    IF Len(results) = 2 /\ results[1].name = "Button" /\ results[2].name = "Ball"
    THEN <<results[2], results[1]>>
    ELSE results

\* QueryRoot::component_counts after the send
component_counts(o) ==
    IF o.k = "elapsed" THEN GqlError("query timed out")
    ELSE IF o.k = "closed" THEN GqlError("receive response failed")
    ELSE [kind |-> "result", success |-> TRUE, message |-> "",
          data |-> sort_by_name(<<ComponentCount("Button", o.v.counts.Button),
                                  ComponentCount("Ball", o.v.counts.Ball)>>)]

\* the message a resolver publishes
gql_message(call, tx) ==
    IF call.op = "hover" THEN Hover(AsF32(call.x), AsF32(call.y), tx)
    ELSE IF call.op = "click" THEN Click(AsF32(call.x), AsF32(call.y), tx)
    ELSE IF call.op = "screenshot" THEN Screenshot(call.path, tx)
    ELSE QueryComponents(tx)

gql_response(type, path, o) ==
    IF type = "Hover" THEN wait_bool(o, "hover")
    ELSE IF type = "Click" THEN wait_bool(o, "click")
    ELSE IF type = "Screenshot" THEN gql_screenshot(o, path)
    ELSE component_counts(o)

\* Handlers that give every await the timeout of a command: the properties
\* of the timeouts must tell them from the program
CommandTimeoutOnly(type) == COMMAND_TIMEOUT_SECS

\* the timeout each await is given
TimeoutSecs(type) ==
    IF type = "Screenshot" THEN SCREENSHOT_TIMEOUT_SECS ELSE COMMAND_TIMEOUT_SECS

----------------------------------------------------------------------------
(* backoff::ExponentialBackoff as the waiter thread builds it: the initial *)
(* and maximal interval and the maximal elapsed time are set, the          *)
(* multiplier (3/2) and the randomization factor (1/2) are the defaults    *)

\* get_random_value_from_interval: anything from half the interval to one
\* and a half times it; the least, the middle and the greatest are taken
randomized_interval(cur) == {cur - cur \div 2, cur, cur + cur \div 2}

\* increment_current_interval
increment_current_interval(cur) ==
    IF cur * MultiplierNum >= MaxIntervalMs * MultiplierDen
    THEN MaxIntervalMs
    ELSE (cur * MultiplierNum) \div MultiplierDen

\* A backoff without max_elapsed_time, which never returns None: the
\* properties of the end of the waiter must tell it from the program
next_backoff_unbounded(elapsed, ri) == <<ri>>

\* next_backoff: None (<<>>) once the time is up or the next sleep would
\* end after it, else Some(the randomized interval)
next_backoff(elapsed, ri) ==
    IF elapsed > Secs(MaxElapsedSecs) THEN <<>>
    ELSE IF elapsed + ri <= Secs(MaxElapsedSecs) THEN <<ri>>
    ELSE <<>>

NoWaiter == [st |-> "none", path |-> "", elapsed |-> 0, current_interval |-> 0, sleep |-> 0]

\* A Screenshot arm that starts no thread and lets the sender go: the
\* properties of the waiter must tell it from the program
spawn_nothing(path) == NoWaiter

\* std::thread::spawn of the waiter: backoff::retry resets the backoff and
\* calls the operation at once
spawn_waiter(path) ==
    [st |-> "running", path |-> path, elapsed |-> 0,
     current_interval |-> InitialIntervalMs, sleep |-> 0]

----------------------------------------------------------------------------
(* The state after main() has built the app and Startup has run setup *)

IdleConn == [pc |-> "idle", req |-> 0, type |-> "", path |-> "", age |-> 0, appeared |-> FALSE]
NoInput == [c |-> "", id |-> 0, text |-> Unparsable]
NoOutput == [id |-> 0, resp |-> error_response("")]

Init ==
    /\ srv \in {"off", "spawned"}
    /\ srv2 = "off"
    /\ transport \in {"ws", "gql"}
    /\ queue = <<>>
    /\ slot = [i \in ReqIds |-> NoSlot]
    /\ nextReq = 1
    /\ shots = 0
    /\ conn = [c \in Conns |-> IdleConn]
    /\ inp = NoInput
    /\ out = NoOutput
    /\ answers = [i \in ReqIds |-> 0]
    /\ fpc = "idle"
    /\ interaction = "None"
    /\ changed = TRUE
    /\ ballCount = 0
    /\ buttonCount = NumGameButtons
    /\ waiter = [i \in ReqIds |-> NoWaiter]
    /\ fileExists = [p \in Paths |-> FALSE]
    /\ captures = [spawned |-> {}, live |-> {}]
    /\ applied = <<>>
    /\ clicks = 0
    /\ drainSnap = <<>>
    /\ drainFrom = 0

ioVars == <<inp, out, answers>>
frameVars == <<fpc, interaction, changed, ballCount, buttonCount>>
histVars == <<applied, clicks, drainSnap, drainFrom>>

----------------------------------------------------------------------------
(* The server thread *)

\* A channel that is there from the start of the process: the properties of
\* the ticks before start_test_server must tell it from the OnceLock of the
\* program
channel_from_start == TRUE

\* OnceLock::get on TEST_COMMAND_CHANNEL: set by the first thing the server
\* thread does
TEST_COMMAND_CHANNEL == srv \in {"listening", "panicked"}

\* start_test_server's thread: the channel is made and set, then the port
\* is bound; bind(..).await.unwrap() panics this thread when it fails
start_test_server ==
    /\ srv = "spawned"
    /\ \E bound \in BOOLEAN : srv' = IF bound THEN "listening" ELSE "panicked"
    /\ UNCHANGED <<srv2, transport, queue, slot, nextReq, shots, conn, ioVars, frameVars,
                   waiter, fileExists, captures, histVars>>

\* A channel of capacity one used with try_send, which is Err when it is
\* full: the properties of publishing must tell it from the program
send_bounded(q, msg) == [ok |-> TEST_COMMAND_CHANNEL /\ Len(q) < 1, queue |-> Append(q, msg)]

\* A channel that hands every message to the receiver twice: the properties
\* of exactly-once delivery must tell it from the channel of the program
send_twice(q, msg) == [ok |-> TEST_COMMAND_CHANNEL, queue |-> Append(Append(q, msg), msg)]

\* Sender::send on the unbounded channel: Err only when every receiver is
\* gone, and the static keeps one
send(q, msg) == [ok |-> TEST_COMMAND_CHANNEL, queue |-> Append(q, msg)]

\* A handler that has published and now awaits
Waiting(id, msg) ==
    [pc |-> "waiting", req |-> id, type |-> msg.type, path |-> msg.path,
     age |-> 0, appeared |-> FALSE]

\* A connection can send a request when the server listens and the
\* connection's last request has been answered. Idle connections are alike:
\* the request is taken to come on the first of them.
FirstConn == "c1"

\* A handle_socket that spawns a task for every frame and reads the next
\* at once: the properties of the order within a connection must tell it
\* from the loop of the program
MayReceiveAnytime(c) ==
    /\ srv = "listening"
    /\ nextReq <= MaxReqs
    /\ c = FirstConn \/ conn[FirstConn].pc # "idle"
MayReceive(c) ==
    /\ srv = "listening"
    /\ conn[c].pc = "idle"
    /\ nextReq <= MaxReqs
    /\ c = FirstConn \/ conn[FirstConn].pc # "idle"

\* the Screenshot messages are bounded
MayPublish(msg) == msg.type = "Screenshot" => shots < MaxShots
Published(msg) == IF msg.type = "Screenshot" THEN shots + 1 ELSE shots

\* handle_socket: one text frame is read; if it parses, handle_command runs
\* to its first await or to its response, which is then sent
ws_recv(c, text) ==
    /\ transport = "ws"
    /\ MayReceive(c)
    /\ nextReq' = nextReq + 1
    /\ inp' = [c |-> c, id |-> nextReq, text |-> text]
    /\ LET id   == nextReq
           step == handle_command(text, id)
           r    == send(queue, step.msg)
       IN  IF ~text.parses
           THEN UNCHANGED <<queue, slot, shots, conn, out, answers>>
           ELSE IF step.returned \/ ~r.ok
           THEN /\ out' = [id |-> id, resp |-> IF step.returned THEN step.resp
                                               ELSE error_response("send failed")]
                /\ answers' = [answers EXCEPT ![id] = @ + 1]
                /\ UNCHANGED <<queue, slot, shots, conn>>
           ELSE /\ MayPublish(step.msg)
                /\ shots' = Published(step.msg)
                /\ queue' = r.queue
                /\ slot' = [slot EXCEPT ![id] = channel]
                /\ conn' = [conn EXCEPT ![c] = Waiting(id, step.msg)]
                /\ UNCHANGED <<out, answers>>
    /\ UNCHANGED <<srv, srv2, transport, frameVars, waiter, fileExists, captures, histVars>>

\* graphql_handler: a resolver makes its oneshot, sends and awaits
gql_call(c, call) ==
    /\ transport = "gql"
    /\ MayReceive(c)
    /\ nextReq' = nextReq + 1
    /\ inp' = [c |-> c, id |-> nextReq,
               text |-> TestCommand(call.op, Params(JNum(call.x), JNum(call.y), JStr(call.path)))]
    /\ LET id  == nextReq
           msg == gql_message(call, id)
           r   == send(queue, msg)
       IN  IF r.ok
           THEN /\ MayPublish(msg)
                /\ shots' = Published(msg)
                /\ queue' = r.queue
                /\ slot' = [slot EXCEPT ![id] = channel]
                /\ conn' = [conn EXCEPT ![c] = Waiting(id, msg)]
                /\ UNCHANGED <<out, answers>>
           ELSE /\ out' = [id |-> id, resp |-> GqlError("send failed")]
                /\ answers' = [answers EXCEPT ![id] = @ + 1]
                /\ UNCHANGED <<queue, slot, shots, conn>>
    /\ UNCHANGED <<srv, srv2, transport, frameVars, waiter, fileExists, captures, histVars>>

\* what the handler of connection c would get from its await now
Outcome(c) == timeout(TimeoutSecs(conn[c].type), slot[conn[c].req], conn[c].age)

Awaiting(c) == conn[c].pc = "waiting"

\* the response the handler of connection c builds from what its await
\* returns
Response(c) ==
    IF transport = "ws" THEN ws_response(conn[c].type, conn[c].path, Outcome(c))
    ELSE gql_response(conn[c].type, conn[c].path, Outcome(c))

\* A handle_socket that drops the response of handle_command and reads the
\* next frame: the properties of one response for each request must tell it
\* from the loop of the program
await_returns_silent(c) ==
    /\ Awaiting(c)
    /\ Outcome(c).k # "pending"
    /\ slot' = [slot EXCEPT ![conn[c].req] = oneshot_close(slot[conn[c].req])]
    /\ conn' = [conn EXCEPT ![c] = IdleConn]
    /\ UNCHANGED <<srv, srv2, transport, queue, nextReq, shots, ioVars, frameVars, waiter,
                   fileExists, captures, histVars>>

\* A handler that writes the Interaction of the buttons itself when its
\* await returns: the properties of who changes the world must tell it from
\* the handlers of the program
await_returns_pressing(c) ==
    /\ Awaiting(c)
    /\ Outcome(c).k # "pending"
    /\ slot' = [slot EXCEPT ![conn[c].req] = oneshot_close(slot[conn[c].req])]
    /\ out' = [id |-> conn[c].req, resp |-> Response(c)]
    /\ answers' = [answers EXCEPT ![conn[c].req] = @ + 1]
    /\ conn' = [conn EXCEPT ![c] = IdleConn]
    /\ interaction' = "Pressed"
    /\ UNCHANGED <<srv, srv2, transport, queue, nextReq, shots, inp, fpc, changed, ballCount,
                   buttonCount, waiter, fileExists, captures, histVars>>

\* The await of a handler returns (a value, RecvError or Elapsed); the
\* receiver is dropped, the response is built and sent, and the connection
\* reads its next request
await_returns(c) ==
    /\ Awaiting(c)
    /\ Outcome(c).k # "pending"
    /\ LET id == conn[c].req
       IN  /\ slot' = [slot EXCEPT ![id] = oneshot_close(slot[id])]
           /\ out' = [id |-> id, resp |-> Response(c)]
           /\ answers' = [answers EXCEPT ![id] = @ + 1]
           /\ conn' = [conn EXCEPT ![c] = IdleConn]
    /\ UNCHANGED <<srv, srv2, transport, queue, nextReq, shots, inp, frameVars, waiter,
                   fileExists, captures, histVars>>

\* The client of a GraphQL call goes away while the call is awaited: the
\* resolver is a future of the HTTP connection and is dropped with it,
\* receiver included. (The handler of a WebSocket is a task of its own: it
\* goes on awaiting when the peer has gone.) The name of the connection is
\* free for a later one.
client_disconnect(c) ==
    /\ transport = "gql"
    /\ Awaiting(c)
    /\ conn' = [conn EXCEPT ![c] = IdleConn]
    /\ slot' = [slot EXCEPT ![conn[c].req] = oneshot_close(slot[conn[c].req])]
    /\ UNCHANGED <<srv, srv2, transport, queue, nextReq, shots, ioVars, frameVars, waiter,
                   fileExists, captures, histVars>>

----------------------------------------------------------------------------
(* A second call of start_test_server, made when the first has set        *)
(* TEST_COMMAND_CHANNEL                                                    *)

\* the connections to the second server
Conns2 == {"d1"}

\* The thread of the second call: unbounded() makes a new channel,
\* OnceLock::set on the full cell returns Err with the TestChannel, which
\* `let _ =` drops and the new receiver with it; the router is given the new
\* sender; then the port is bound, which can work when the port differs or
\* the first server did not get it.
start_test_server_again ==
    /\ TEST_COMMAND_CHANNEL
    /\ srv2 = "off"
    /\ \E bound \in BOOLEAN : srv2' = IF bound THEN "listening" ELSE "panicked"
    /\ UNCHANGED <<srv, transport, queue, slot, nextReq, shots, conn, ioVars, frameVars,
                   waiter, fileExists, captures, histVars>>

\* Sender::send on the channel of the second call: its only receiver is
\* gone, so it returns Err and the message is dropped
send_disconnected(q, msg) == [ok |-> FALSE, queue |-> q]

\* handle_socket of the second server: handle_command with the new sender
ws_recv_second(d, text) ==
    /\ transport = "ws"
    /\ srv2 = "listening"
    /\ nextReq <= MaxReqs
    /\ nextReq' = nextReq + 1
    /\ inp' = [c |-> d, id |-> nextReq, text |-> text]
    /\ LET id   == nextReq
           step == handle_command(text, id)
           r    == send_disconnected(queue, step.msg)
       IN  IF ~text.parses
           THEN UNCHANGED <<queue, out, answers>>
           ELSE /\ out' = [id |-> id, resp |-> IF step.returned THEN step.resp
                                               ELSE error_response("send failed")]
                /\ answers' = [answers EXCEPT ![id] = @ + 1]
                /\ queue' = IF step.returned \/ ~r.ok THEN queue ELSE r.queue
    /\ UNCHANGED <<srv, srv2, transport, slot, shots, conn, frameVars, waiter, fileExists,
                   captures, histVars>>

\* graphql_handler of the second server: the resolvers with the new sender
gql_call_second(d, call) ==
    /\ transport = "gql"
    /\ srv2 = "listening"
    /\ nextReq <= MaxReqs
    /\ nextReq' = nextReq + 1
    /\ inp' = [c |-> d, id |-> nextReq,
               text |-> TestCommand(call.op, Params(JNum(call.x), JNum(call.y), JStr(call.path)))]
    /\ LET id == nextReq
           r  == send_disconnected(queue, gql_message(call, id))
       IN  /\ out' = [id |-> id, resp |-> GqlError("send failed")]
           /\ answers' = [answers EXCEPT ![id] = @ + 1]
           /\ queue' = IF r.ok THEN r.queue ELSE queue
    /\ UNCHANGED <<srv, srv2, transport, slot, shots, conn, frameVars, waiter, fileExists,
                   captures, histVars>>

----------------------------------------------------------------------------
(* The frame loop: one run of the Update schedule is                       *)
(*   receive_test_messages, then handle_button_interaction                 *)

\* the Ball entities handle_button_interaction spawns: one for each
\* GameButton whose Interaction changed and is Pressed
spawned_balls(chg, inter) == IF chg /\ inter = "Pressed" THEN buttonCount ELSE 0

\* handle_button_interaction, and the end of the Update schedule, where the
\* deferred spawns (Ball and Screenshot entities) are applied
handle_button_interaction ==
    /\ ballCount' = ballCount + spawned_balls(changed, interaction)
    /\ changed' = FALSE
    /\ captures' = [spawned |-> {}, live |-> captures.live \cup captures.spawned]

\* receive_test_messages is called. With the channel it enters its while
\* loop; without, it returns and the rest of the schedule runs.
drain_begin ==
    /\ fpc = "idle"
    /\ IF TEST_COMMAND_CHANNEL
       THEN /\ fpc' = "draining"
            /\ drainFrom' = Len(applied)
            /\ drainSnap' = [i \in 1..Len(queue) |->
                               [id |-> queue[i].response, type |-> queue[i].type]]
            /\ UNCHANGED <<changed, ballCount, captures>>
       ELSE /\ fpc' = "idle"
            /\ drainFrom' = 0
            /\ drainSnap' = <<>>
            /\ handle_button_interaction
    /\ UNCHANGED <<srv, srv2, transport, queue, slot, nextReq, shots, conn, ioVars, interaction,
                   buttonCount, waiter, fileExists, applied, clicks>>

\* the value an arm of the match sends on the message's oneshot
reply_value(msg) ==
    IF msg.type = "QueryComponents"
    THEN CountsValue(ballCount, buttonCount, msg.response)
    ELSE BoolValue(TRUE, msg.response)

\* A frame loop that answers on the oneshot made last instead of the one in
\* the message: the properties of delivery must tell it from the program
reply_slot_newest(msg) == nextReq - 1

\* the oneshot an arm of the match sends on
reply_slot(msg) == msg.response

\* Arms that write the Interaction only when the x and y of the message
\* are inside the 800 by 600 window: the properties of Hover and Click must
\* tell them from the arms of the program, which do not look at x and y
set_interaction_at(msg) ==
    IF msg.x > 800 \/ msg.y > 600 THEN interaction
    ELSE IF msg.type = "Hover" THEN "Hovered"
    ELSE IF msg.type = "Click" THEN "Pressed"
    ELSE interaction

\* the Interaction an arm of the match writes to every GameButton
set_interaction(msg) ==
    IF msg.type = "Hover" THEN "Hovered"
    ELSE IF msg.type = "Click" THEN "Pressed"
    ELSE interaction

\* A loop whose Click arm spawns the Ball itself: the properties of what an
\* arm changes must tell it from the loop of the program, where the Ball is
\* left to handle_button_interaction
drain_step_spawning ==
    /\ fpc = "draining"
    /\ queue # <<>>
    /\ LET msg == Head(queue)
           tx  == reply_slot(msg)
       IN  /\ queue' = Tail(queue)
           /\ applied' = Append(applied, msg.response)
           /\ clicks' = IF msg.type = "Click" THEN clicks + 1 ELSE clicks
           /\ IF msg.type \in {"Hover", "Click"}
              THEN /\ interaction' = IF buttonCount > 0 THEN set_interaction(msg)
                                     ELSE interaction
                   /\ changed' = (changed \/ buttonCount > 0)
                   /\ slot' = [slot EXCEPT ![tx] = oneshot_send(slot[tx], reply_value(msg))]
                   /\ fpc' = IF let_underscore(send_is_ok(slot[tx])) = "running"
                             THEN "draining" ELSE "panicked"
                   /\ UNCHANGED <<waiter, captures>>
              ELSE IF msg.type = "Screenshot"
              THEN /\ captures' = [captures EXCEPT !.spawned = @ \cup {msg.path}]
                   /\ waiter' = [waiter EXCEPT ![tx] = spawn_waiter(msg.path)]
                   /\ UNCHANGED <<interaction, changed, slot, fpc>>
              ELSE /\ slot' = [slot EXCEPT ![tx] = oneshot_send(slot[tx], reply_value(msg))]
                   /\ fpc' = IF let_underscore(send_is_ok(slot[tx])) = "running"
                             THEN "draining" ELSE "panicked"
                   /\ UNCHANGED <<interaction, changed, waiter, captures>>
    /\ ballCount' = IF Head(queue).type = "Click" THEN ballCount + buttonCount ELSE ballCount
    /\ UNCHANGED <<srv, srv2, transport, nextReq, shots, conn, ioVars, buttonCount,
                   fileExists, drainSnap, drainFrom>>

\* try_recv returned Ok(msg): one turn of the while loop
drain_step ==
    /\ fpc = "draining"
    /\ queue # <<>>
    /\ LET msg == Head(queue)
           tx  == reply_slot(msg)
       IN  /\ queue' = Tail(queue)
           /\ applied' = Append(applied, msg.response)
           /\ clicks' = IF msg.type = "Click" THEN clicks + 1 ELSE clicks
           /\ IF msg.type \in {"Hover", "Click"}
              THEN /\ interaction' = IF buttonCount > 0 THEN set_interaction(msg)
                                     ELSE interaction
                   /\ changed' = (changed \/ buttonCount > 0)
                   /\ slot' = [slot EXCEPT ![tx] = oneshot_send(slot[tx], reply_value(msg))]
                   /\ fpc' = IF let_underscore(send_is_ok(slot[tx])) = "running"
                             THEN "draining" ELSE "panicked"
                   /\ UNCHANGED <<waiter, captures>>
              ELSE IF msg.type = "Screenshot"
              THEN /\ captures' = [captures EXCEPT !.spawned = @ \cup {msg.path}]
                   /\ waiter' = [waiter EXCEPT ![tx] = spawn_waiter(msg.path)]
                   /\ UNCHANGED <<interaction, changed, slot, fpc>>
              ELSE /\ slot' = [slot EXCEPT ![tx] = oneshot_send(slot[tx], reply_value(msg))]
                   /\ fpc' = IF let_underscore(send_is_ok(slot[tx])) = "running"
                             THEN "draining" ELSE "panicked"
                   /\ UNCHANGED <<interaction, changed, waiter, captures>>
    /\ UNCHANGED <<srv, srv2, transport, nextReq, shots, conn, ioVars, ballCount, buttonCount,
                   fileExists, drainSnap, drainFrom>>

\* A loop that takes one message and ends (`if let` for `while let`): the
\* properties of the drain must tell it from the loop of the program
drain_after_one ==
    /\ fpc = "draining"
    /\ queue = <<>> \/ Len(applied) > drainFrom
    /\ fpc' = "idle"
    /\ handle_button_interaction
    /\ drainSnap' = <<>>
    /\ drainFrom' = 0
    /\ UNCHANGED <<srv, srv2, transport, queue, slot, nextReq, shots, conn, ioVars, interaction,
                   buttonCount, waiter, fileExists, applied, clicks>>

\* A schedule without `.after(receive_test_messages)` in which
\* handle_button_interaction has run before the drain: the drain ends and the
\* tick with it, and what the drain wrote waits for the next tick. The
\* properties of the order of the systems must tell it from the program
drain_end_unordered ==
    /\ fpc = "draining"
    /\ queue = <<>>
    /\ fpc' = "idle"
    /\ drainSnap' = <<>>
    /\ drainFrom' = 0
    /\ UNCHANGED <<srv, srv2, transport, queue, slot, nextReq, shots, conn, ioVars, interaction,
                   changed, ballCount, buttonCount, waiter, fileExists, captures, applied,
                   clicks>>

\* try_recv returned Err(Empty): the while loop and the system end, and the
\* rest of the schedule runs
drain_end ==
    /\ fpc = "draining"
    /\ queue = <<>>
    /\ fpc' = "idle"
    /\ handle_button_interaction
    /\ drainSnap' = <<>>
    /\ drainFrom' = 0
    /\ UNCHANGED <<srv, srv2, transport, queue, slot, nextReq, shots, conn, ioVars, interaction,
                   buttonCount, waiter, fileExists, applied, clicks>>

----------------------------------------------------------------------------
(* The render world and the disk *)

\* save_to_disk writes the captured image of a live Screenshot entity. The
\* handlers awaiting a screenshot of that path note that it appeared within
\* their five seconds (history).
file_written(p) ==
    /\ p \in captures.live
    /\ captures' = [captures EXCEPT !.live = @ \ {p}]
    /\ fileExists' = [fileExists EXCEPT ![p] = TRUE]
    /\ conn' = [c \in Conns |->
                  IF /\ Awaiting(c) /\ conn[c].type = "Screenshot" /\ conn[c].path = p
                     /\ conn[c].age < Secs(SCREENSHOT_TIMEOUT_SECS)
                  THEN [conn[c] EXCEPT !.appeared = TRUE]
                  ELSE conn[c]]
    /\ UNCHANGED <<srv, srv2, transport, queue, slot, nextReq, shots, ioVars, frameVars, waiter,
                   histVars>>

----------------------------------------------------------------------------
(* The waiter thread of a Screenshot message *)

\* thread::sleep(d) ends at the first instant of the clock at or after d:
\* the polls the thread makes between two instants are taken as the one at
\* the later instant, and a file written after the last of them is seen
\* there at the earliest
sleep_until(d) == ((d + Quantum - 1) \div Quantum) * Quantum

\* One turn of backoff::retry: the operation looks for the file; Ok ends the
\* retry, a transient Err asks next_backoff for the next sleep and ends the
\* retry when there is none. The thread then sends result.is_ok().
waiter_poll(id) ==
    /\ waiter[id].st = "running"
    /\ waiter[id].sleep = 0
    /\ LET w == waiter[id]
       IN  IF fileExists[w.path]
           THEN /\ waiter' = [waiter EXCEPT ![id] = [NoWaiter EXCEPT !.st = "done"]]
                /\ slot' = [slot EXCEPT ![id] = oneshot_send(slot[id], BoolValue(TRUE, id))]
           ELSE \E ri \in randomized_interval(w.current_interval) :
                  LET next == next_backoff(w.elapsed, ri)
                  IN  IF next = <<>>
                      THEN /\ waiter' = [waiter EXCEPT ![id] = [NoWaiter EXCEPT !.st = "done"]]
                           /\ slot' = [slot EXCEPT ![id] =
                                           oneshot_send(slot[id], BoolValue(FALSE, id))]
                      ELSE /\ waiter' = [waiter EXCEPT
                                  ![id].sleep = sleep_until(next[1]),
                                  ![id].current_interval =
                                      increment_current_interval(w.current_interval)]
                           /\ slot' = slot
    /\ UNCHANGED <<srv, srv2, transport, queue, nextReq, shots, conn, ioVars, frameVars,
                   fileExists, captures, histVars>>

----------------------------------------------------------------------------
(* Time *)

\* Quantum milliseconds pass. A handler whose await can return and a waiter
\* whose sleep is over run before more time passes.
tick ==
    /\ \A c \in Conns : Awaiting(c) => Outcome(c).k = "pending"
    /\ \A i \in ReqIds : waiter[i].st = "running" => waiter[i].sleep > 0
    /\ \/ \E c \in Conns : Awaiting(c)
       \/ \E i \in ReqIds : waiter[i].st = "running"
    /\ conn' = [c \in Conns |->
                  IF Awaiting(c) THEN [conn[c] EXCEPT !.age = @ + Quantum] ELSE conn[c]]
    /\ waiter' = [i \in ReqIds |->
                  IF waiter[i].st = "running"
                  THEN [waiter[i] EXCEPT !.elapsed = @ + Quantum,
                                         !.sleep = Max(0, @ - Quantum)]
                  ELSE waiter[i]]
    /\ UNCHANGED <<srv, srv2, transport, queue, slot, nextReq, shots, ioVars, frameVars,
                   fileExists, captures, histVars>>

----------------------------------------------------------------------------

Next ==
    \/ start_test_server
    \/ \E c \in Conns, text \in Texts : ws_recv(c, text)
    \/ \E c \in Conns, call \in GqlOps : gql_call(c, call)
    \/ \E c \in Conns : await_returns(c)
    \/ \E c \in Conns : client_disconnect(c)
    \/ drain_begin
    \/ drain_step
    \/ drain_end
    \/ \E p \in Paths : file_written(p)
    \/ \E i \in ReqIds : waiter_poll(i)
    \/ tick

Spec == Init /\ [][Next]_vars

\* The frame loop stalls from the start: the Update schedule never runs, so
\* nothing is taken from the channel, and no waiter thread and no file
\* comes to be. The tokio runtime polls a handler whose timer is ready, and
\* time passes.
NextStalled ==
    \/ start_test_server
    \/ \E c \in Conns, text \in Texts : ws_recv(c, text)
    \/ \E c \in Conns, call \in GqlOps : gql_call(c, call)
    \/ \E c \in Conns : await_returns(c)
    \/ \E c \in Conns : client_disconnect(c)
    \/ tick

StalledSpec ==
    /\ Init
    /\ [][NextStalled]_vars
    /\ WF_vars(tick)
    /\ \A c \in Conns : WF_vars(await_returns(c))

\* The sender of request id is dropped before anything was sent on it: its
\* message is destroyed while it is in the channel. The program has no path
\* that does this while it runs; it is a fault of the environment of the
\* handlers.
sender_dropped(id) ==
    /\ slot[id].tx = "held"
    /\ slot' = [slot EXCEPT ![id].tx = "dropped"]
    /\ queue' = SelectSeq(queue, LAMBDA m : m.response # id)
    /\ UNCHANGED <<srv, srv2, transport, nextReq, shots, conn, ioVars, frameVars, waiter,
                   fileExists, captures, histVars>>

\* The handlers with that fault, the frame loop stalled: requests are
\* published, senders are dropped, awaits return and time passes
NextFault ==
    \/ start_test_server
    \/ \E c \in Conns, text \in Texts : ws_recv(c, text)
    \/ \E c \in Conns, call \in GqlOps : gql_call(c, call)
    \/ \E c \in Conns : await_returns(c)
    \/ \E i \in ReqIds : sender_dropped(i)
    \/ tick

FaultSpec == Init /\ [][NextFault]_vars

\* The frame loop keeps ticking: the Update schedule runs again and again,
\* a waiter thread that is due polls, and time passes. Requests come as
\* GraphQL calls and the files of the screenshots never appear, which is
\* the longest a waiter runs.
NextTicking ==
    \/ start_test_server
    \/ \E c \in Conns, call \in GqlOps : gql_call(c, call)
    \/ \E c \in Conns : await_returns(c)
    \/ drain_begin
    \/ drain_step
    \/ drain_end
    \/ \E i \in ReqIds : waiter_poll(i)
    \/ tick

TickingSpec ==
    /\ Init
    /\ [][NextTicking]_vars
    /\ WF_vars(start_test_server)
    /\ WF_vars(drain_begin) /\ WF_vars(drain_step) /\ WF_vars(drain_end)
    /\ \A i \in ReqIds : WF_vars(waiter_poll(i))
    /\ \A c \in Conns : WF_vars(await_returns(c))
    /\ WF_vars(tick)

\* The program starts on a disk that may hold the file of a screenshot
\* already (an earlier run wrote it): Init but for fileExists
InitLeftover ==
    /\ srv \in {"off", "spawned"}
    /\ srv2 = "off"
    /\ transport \in {"ws", "gql"}
    /\ queue = <<>>
    /\ slot = [i \in ReqIds |-> NoSlot]
    /\ nextReq = 1
    /\ shots = 0
    /\ conn = [c \in Conns |-> IdleConn]
    /\ inp = NoInput
    /\ out = NoOutput
    /\ answers = [i \in ReqIds |-> 0]
    /\ fpc = "idle"
    /\ interaction = "None"
    /\ changed = TRUE
    /\ ballCount = 0
    /\ buttonCount = NumGameButtons
    /\ waiter = [i \in ReqIds |-> NoWaiter]
    /\ fileExists \in [Paths -> BOOLEAN]
    /\ captures = [spawned |-> {}, live |-> {}]
    /\ applied = <<>>
    /\ clicks = 0
    /\ drainSnap = <<>>
    /\ drainFrom = 0

\* the program on that disk, its requests coming as GraphQL calls
NextLeftover ==
    \/ start_test_server
    \/ \E c \in Conns, call \in GqlOps : gql_call(c, call)
    \/ \E c \in Conns : await_returns(c)
    \/ drain_begin
    \/ drain_step
    \/ drain_end
    \/ \E p \in Paths : file_written(p)
    \/ \E i \in ReqIds : waiter_poll(i)
    \/ tick

LeftoverSpec == InitLeftover /\ [][NextLeftover]_vars

\* start_test_server is called a second time. The clock is left out: no
\* handler times out and no waiter thread polls.
NextRestart ==
    \/ start_test_server
    \/ start_test_server_again
    \/ \E c \in Conns, text \in Texts : ws_recv(c, text)
    \/ \E c \in Conns, call \in GqlOps : gql_call(c, call)
    \/ \E d \in Conns2, text \in Texts : ws_recv_second(d, text)
    \/ \E d \in Conns2, call \in GqlOps : gql_call_second(d, call)
    \/ \E c \in Conns : await_returns(c)
    \/ drain_begin
    \/ drain_step
    \/ drain_end

RestartSpec == Init /\ [][NextRestart]_vars

----------------------------------------------------------------------------
(* Properties *)

\* the request ids handled so far by the running drain call
Drained == SubSeq(applied, drainFrom + 1, Len(applied))

\* C1: when a call of receive_test_messages ends, every message that was in
\* the channel when it began (Hover and Click among them) has been handled
\* by it, in the order of publication and before anything published later,
\* the oneshot of each Hover, Click and QueryComponents among them has been
\* sent on exactly once, and the channel is empty.
C1_DrainAppliesAll ==
    [][(fpc = "draining" /\ fpc' = "idle") =>
          /\ queue = <<>>
          /\ Len(Drained) >= Len(drainSnap)
          /\ \A i \in 1..Len(drainSnap) :
                /\ Drained[i] = drainSnap[i].id
                /\ drainSnap[i].type # "Screenshot" => slot[drainSnap[i].id].writes = 1]_vars

\* a drain of two messages, each a Hover or a Click, is about to end
C1_Witness ==
    /\ fpc = "draining"
    /\ queue = <<>>
    /\ Len(drainSnap) = 2
    /\ \A i \in 1..2 : drainSnap[i].type \in {"Hover", "Click"}
    /\ Drained = <<drainSnap[1].id, drainSnap[2].id>>
    /\ \A i \in 1..2 : slot[drainSnap[i].id].writes = 1

\* C2: with a request outstanding on each of two connections, the value a
\* handler gets from its await is the one made while its own message was
\* handled: it carries that request's id, and it is the map of counts
\* exactly when the request is a component query.
C2_NoCrossDelivery ==
    \A c \in Conns :
        (Awaiting(c) /\ Outcome(c).k = "value") =>
            /\ Outcome(c).v.tag = conn[c].req
            /\ (Outcome(c).v.t = "counts") = (conn[c].type = "QueryComponents")

\* both connections await, and the value of each is in its oneshot
C2_Witness ==
    /\ \A c \in Conns : Awaiting(c) /\ Outcome(c).k = "value"
    /\ \A c, d \in Conns : c # d => conn[c].req # conn[d].req

\* C3: every Click handled adds exactly one Ball, whatever else the same run
\* of the schedule handles: whenever the schedule is not running, there are
\* as many Ball entities as Click messages handled.
C3_ClickAddsOneBall == fpc = "idle" => ballCount = clicks

\* a text frame has just been read
FrameRead == inp'.id # inp.id

\* the step answers the frame read with a failure that has a message, and
\* leaves the channel, the oneshots and the handlers as they were
RejectedAtOnce ==
    /\ queue' = queue
    /\ slot' = slot
    /\ conn' = conn
    /\ answers'[inp'.id] = 1
    /\ out'.id = inp'.id
    /\ out'.resp.kind = "result"
    /\ ~out'.resp.success
    /\ out'.resp.message # ""

KnownActions == {"hover", "click", "screenshot", "query_components"}

\* C4: a frame of the WebSocket whose action is none of the four known is
\* answered at once with success = false and a message, and nothing is
\* published.
C4_UnknownActionRejected ==
    [][(FrameRead /\ transport = "ws" /\ inp'.text.parses
          /\ inp'.text.action \notin KnownActions) => RejectedAtOnce]_vars

\* the action "drag" has been answered with a failure
C4_Witness ==
    /\ transport = "ws"
    /\ inp.text.parses /\ inp.text.action = "drag"
    /\ out.id = inp.id /\ ~out.resp.success /\ out.resp.message # ""
    /\ ~slot[inp.id].made

BadCoords(p) == ~p.present \/ p.x.t # "num" \/ p.y.t # "num"
BadPath(p) == ~p.present \/ p.path.t # "str"

\* C5: a hover or click frame without params, without x, without y or with
\* an x or y that is no number, and a screenshot frame without params,
\* without path or with a path that is no string, is answered at once with
\* success = false and a message, and nothing is published.
C5_InvalidParamsRejected ==
    [][(FrameRead /\ transport = "ws" /\ inp'.text.parses
          /\ \/ inp'.text.action \in {"hover", "click"} /\ BadCoords(inp'.text.params)
             \/ inp'.text.action = "screenshot" /\ BadPath(inp'.text.params))
       => RejectedAtOnce]_vars

\* a click whose x is a string has been answered with a failure
C5_Witness ==
    /\ transport = "ws"
    /\ inp.text.parses /\ inp.text.action = "click"
    /\ inp.text.params.present /\ inp.text.params.x.t = "str"
    /\ out.id = inp.id /\ ~out.resp.success /\ out.resp.message # ""
    /\ ~slot[inp.id].made

\* C6: a frame of the WebSocket that does not parse as a TestCommand is
\* answered at once with a failure, and nothing is published.
C6_UnparsableAnswered ==
    [][(FrameRead /\ transport = "ws" /\ ~inp'.text.parses) => RejectedAtOnce]_vars

\* the message of the request connection c awaits is still in the channel
Undrained(c) == \E i \in 1..Len(queue) : queue[i].response = conn[c].req

\* the timeouts as the handlers are to have them, in milliseconds
Budget(type) == IF type = "Screenshot" THEN 5000 ELSE 2000

\* C7: when the frame loop never takes anything from the channel, every
\* handler that has published still ends: its await returns Elapsed, no
\* sooner than 2 s (Hover, Click, QueryComponents) or 5 s (Screenshot)
\* after it published, it is not still waiting one step of the clock after
\* that time, and what it answers then is a failure with a message.
C7_TimesOut ==
    /\ [](\A c \in Conns : Awaiting(c) =>
            /\ Undrained(c)
            /\ conn[c].age < Budget(conn[c].type) + Quantum
            /\ Outcome(c).k \in {"pending", "elapsed"}
            /\ Outcome(c).k = "elapsed" <=> conn[c].age >= Budget(conn[c].type)
            /\ Outcome(c).k = "elapsed" =>
                  ~Response(c).success /\ Response(c).message # "")
    /\ \A i \in ReqIds : (slot[i].rx = "alive") ~> (slot[i].rx = "dropped")

\* a Screenshot handler whose message was never taken from the channel has
\* waited its five seconds and is about to answer
C7_Witness ==
    \E c \in Conns :
        /\ Awaiting(c) /\ conn[c].type = "Screenshot" /\ Undrained(c)
        /\ conn[c].age >= Budget("Screenshot")
        /\ Outcome(c).k = "elapsed"

\* C8: the await of a handler that returns Elapsed is answered with a
\* result object whose success is false and whose message is there, on
\* either server, and not with an error of the protocol.
C8_TimeoutIsStructuredFailure ==
    \A c \in Conns :
        (Awaiting(c) /\ Outcome(c).k = "elapsed") =>
            /\ Response(c).kind = "result"
            /\ ~Response(c).success
            /\ Response(c).message # ""

\* the Interaction a message leaves on the GameButton
Effect(msg) ==
    IF msg.type = "Hover" THEN "Hovered"
    ELSE IF msg.type = "Click" THEN "Pressed"
    ELSE interaction

\* C9: a handler that ends (Elapsed, or its client gone) leaves its message
\* in the channel and the waiter threads alone; the frame loop handles the
\* message of a handler that has ended as any other; and a send on the
\* oneshot of a handler that has ended leaves no value there, changes no
\* other oneshot, no handler and no response, and does not stop the sender.
C9_AbandonedStillApplied ==
    [][/\ \A c \in Conns :
            (Awaiting(c) /\ ~Awaiting(c)') =>
                queue' = queue /\ waiter' = waiter /\ applied' = applied
       /\ (applied' # applied /\ slot[Head(queue).response].rx = "dropped") =>
            /\ applied' = Append(applied, Head(queue).response)
            /\ queue' = Tail(queue)
            /\ interaction' = Effect(Head(queue))
            /\ Head(queue).type = "Screenshot" =>
                  waiter'[Head(queue).response].st = "running"
            /\ Head(queue).type # "Screenshot" =>
                  slot'[Head(queue).response].writes = 1
       /\ \A i \in ReqIds :
            (slot[i].rx = "dropped" /\ slot'[i].writes # slot[i].writes) =>
                /\ slot'[i].val = <<>>
                /\ \A j \in ReqIds \ {i} : slot'[j] = slot[j]
                /\ conn' = conn
                /\ out' = out /\ answers' = answers
                /\ fpc' = fpc]_vars

\* a Click whose handler was answered Elapsed has been handled by the drain
\* that is running: the button is Pressed and the oneshot was sent on
C9_Witness ==
    /\ fpc = "draining"
    /\ Len(drainSnap) = 1 /\ Drained = <<drainSnap[1].id>>
    /\ drainSnap[1].type = "Click"
    /\ interaction = "Pressed"
    /\ out.id = drainSnap[1].id /\ ~out.resp.success
    /\ slot[out.id].rx = "dropped" /\ slot[out.id].writes = 1 /\ slot[out.id].val = <<>>

\* C10: a Screenshot handler whose file came to be on the disk less than
\* five seconds after it published answers success = true.
C10_FileInTimeSucceeds ==
    \A c \in Conns :
        (Awaiting(c) /\ conn[c].type = "Screenshot" /\ conn[c].appeared
           /\ Outcome(c).k # "pending") =>
            Response(c).success

\* the waiter thread of the request connection c awaits was started at the
\* instant the request was published, and has ended or is still running
DrainedAtOnce(c) ==
    \/ waiter[conn[c].req].st = "done"
    \/ /\ waiter[conn[c].req].st = "running"
       /\ waiter[conn[c].req].elapsed = conn[c].age

\* C11: a Screenshot handler whose message was handled at once and whose
\* file is not there is answered, on either server, with the false the
\* waiter thread sends when its backoff is over: a result object whose
\* success is false, and no other outcome.
C11_MissingFileAnsweredFalse ==
    \A c \in Conns :
        (Awaiting(c) /\ conn[c].type = "Screenshot" /\ ~fileExists[conn[c].path]
           /\ DrainedAtOnce(c) /\ Outcome(c).k # "pending") =>
            /\ Outcome(c).k = "value"
            /\ ~Outcome(c).v.b
            /\ Response(c).kind = "result"
            /\ ~Response(c).success

\* the request ids the frame loop has handled
Applied == {applied[k] : k \in 1..Len(applied)}

\* C12: a Screenshot message that has been handled has its waiter thread,
\* and a waiter thread sends on the oneshot of its own message once and
\* only as it ends: nothing has been sent while it runs, exactly one send
\* has been made when it has ended, a value found in that oneshot is the
\* bool made for this request, and no thread runs past the five seconds of
\* its backoff by a step of the clock.
C12_OneWaiterOneWrite ==
    /\ \A c \in Conns :
          (Awaiting(c) /\ conn[c].type = "Screenshot") =>
              (conn[c].req \in Applied <=> waiter[conn[c].req].st # "none")
    /\ \A k \in 1..Len(drainSnap) :
          (drainSnap[k].type = "Screenshot" /\ k <= Len(Drained)) =>
              waiter[drainSnap[k].id].st # "none"
    /\ \A i \in ReqIds :
          /\ waiter[i].st = "running" =>
                /\ i \in Applied /\ slot[i].writes = 0 /\ slot[i].tx = "held"
                /\ waiter[i].elapsed < 5000 + Quantum
          /\ waiter[i].st = "done" =>
                i \in Applied /\ slot[i].writes = 1 /\ slot[i].tx = "sent"
          /\ (waiter[i].st # "none" /\ slot[i].val # <<>>) =>
                slot[i].val[1].t = "bool" /\ slot[i].val[1].tag = i

\* a waiter thread has given up and sent false, and the handler has not
\* yet taken it
C12_Witness ==
    \E c \in Conns :
        /\ Awaiting(c) /\ conn[c].type = "Screenshot"
        /\ waiter[conn[c].req].st = "done"
        /\ slot[conn[c].req].writes = 1
        /\ Outcome(c).k = "value" /\ ~Outcome(c).v.b

\* a frame that asks for a known operation with arguments as they must be
WellFormed(text) ==
    /\ text.parses
    /\ \/ text.action \in {"hover", "click"} /\ ~BadCoords(text.params)
       \/ text.action = "screenshot" /\ ~BadPath(text.params)
       \/ text.action \in {"query_components", "componentCounts"}

\* C13: a server started by a second call of start_test_server, made when
\* TEST_COMMAND_CHANNEL is set, publishes to the channel the frame loop
\* drains: a well-formed request read by it is appended to that channel.
C13_SecondStartReusesChannel ==
    [][(FrameRead /\ inp'.c \in Conns2 /\ WellFormed(inp'.text)) =>
          /\ Len(queue') = Len(queue) + 1
          /\ queue'[Len(queue')].response = inp'.id]_vars

\* C14: a well-formed request read by the first server, whose channel has
\* its receiver in TEST_COMMAND_CHANNEL, is appended to the channel in the
\* step that reads it, whatever is queued already, and its handler awaits;
\* one read by a server whose send returns Err is answered in that step
\* with a failure that has a message, and leaves the channel, the
\* oneshots, the handlers, the frame loop and the servers as they were.
C14_PublishNeverFails ==
    [][(FrameRead /\ WellFormed(inp'.text)) =>
          IF inp'.c \in Conns
          THEN /\ Len(queue') = Len(queue) + 1
               /\ SubSeq(queue', 1, Len(queue)) = queue
               /\ queue'[Len(queue')].response = inp'.id
               /\ conn'[inp'.c].pc = "waiting" /\ conn'[inp'.c].req = inp'.id
               /\ answers' = answers
          ELSE /\ queue' = queue /\ slot' = slot /\ conn' = conn
               /\ answers'[inp'.id] = 1
               /\ out'.id = inp'.id
               /\ ~out'.resp.success /\ out'.resp.message # ""
               /\ fpc' = fpc /\ srv' = srv /\ srv2' = srv2]_vars

\* with a message queued by the first server, a well-formed request to the
\* second server has been answered with a failure
C14_Witness ==
    /\ Len(queue) >= 1
    /\ inp.c \in Conns2 /\ WellFormed(inp.text)
    /\ out.id = inp.id /\ ~out.resp.success /\ out.resp.message # ""

\* C15: a call of receive_test_messages handles the messages that were in
\* the channel when it was called and then returns, though handlers publish
\* while it runs: when it ends it has handled those messages and no other.
C15_DrainHandlesSnapshotOnly ==
    [][(fpc = "draining" /\ fpc' = "idle") =>
          Drained = [k \in 1..Len(drainSnap) |-> drainSnap[k].id]]_vars

\* the number of messages of request id in the channel, and the number of
\* times the frame loop has taken a message of request id
InChannel(id) == Cardinality({k \in 1..Len(queue) : queue[k].response = id})
TimesApplied(id) == Cardinality({k \in 1..Len(applied) : applied[k] = id})

\* C16: every published message is taken and applied by the frame loop
\* exactly once: a message that was published is either still in the channel,
\* once, or was applied, once, and never both; nothing else is in the channel
\* or applied.
C16_AppliedExactlyOnce ==
    \A id \in ReqIds :
        /\ slot[id].made => InChannel(id) + TimesApplied(id) = 1
        /\ ~slot[id].made => InChannel(id) + TimesApplied(id) = 0

\* a second call of receive_test_messages has emptied the channel after a
\* first one had applied a message
C16_Witness ==
    /\ fpc = "draining" /\ drainFrom >= 1 /\ Len(applied) > drainFrom
    /\ queue = <<>>
    /\ \A k \in 1..Len(applied) : slot[applied[k]].made /\ TimesApplied(applied[k]) = 1

\* the counts the frame loop sent for request id, as long as its handler has
\* not taken them
CountsSent(id) == slot[id].val[1].counts
LastApplied == applied[Len(applied)]

\* C17: query_components returns a count of zero or more for Ball and for
\* Button, and a second query, with no message applied since the first,
\* returns the counts of the first: while the last message applied is a
\* QueryComponents, the counts it was answered with are not negative and are
\* the counts a QueryComponents applied now is answered with.
C17_QueryIdempotent ==
    (/\ Len(applied) >= 1
     /\ slot[LastApplied].val # <<>>
     /\ slot[LastApplied].val[1].t = "counts") =>
        /\ CountsSent(LastApplied).Ball >= 0
        /\ CountsSent(LastApplied).Button >= 0
        /\ reply_value([type |-> "QueryComponents", response |-> 0]).counts
               = CountsSent(LastApplied)

\* the text frame of the WebSocket for the operation of a GraphQL call
FrameOf(call) ==
    IF call.op \in {"hover", "click"}
    THEN TestCommand(call.op, Params(JNum(call.x), JNum(call.y), JMissing))
    ELSE IF call.op = "screenshot"
    THEN TestCommand("screenshot", Params(JMissing, JMissing, JStr(call.path)))
    ELSE TestCommand("query_components", NoParams)

\* C18: the two servers are equivalent: for the same operation and arguments
\* they publish the same message, and for the same outcome of the await (a
\* value, RecvError or Elapsed) they give the caller the same kind of answer
\* with the same success value.
C18_TransportsEquivalent ==
    /\ \A call \in GqlOps, id \in ReqIds :
          /\ ~handle_command(FrameOf(call), id).returned
          /\ handle_command(FrameOf(call), id).msg = gql_message(call, id)
    /\ \A c \in Conns :
          (Awaiting(c) /\ Outcome(c).k # "pending") =>
              LET ws  == ws_response(conn[c].type, conn[c].path, Outcome(c))
                  gql == gql_response(conn[c].type, conn[c].path, Outcome(c))
              IN  ws.kind = gql.kind /\ ws.success = gql.success

\* C19: a failure to bind the port ends the whole process, and nothing else
\* does: once the bind has failed the frame loop runs no more (it is not
\* found inside receive_test_messages), and the frame loop never panics.
C19_BindFailureIsFatal ==
    /\ srv = "panicked" => fpc = "idle"
    /\ fpc # "panicked"

\* the connections whose handler awaits the answer to request id
Awaiters(id) == {c \in Conns : Awaiting(c) /\ conn[c].req = id}
Outstanding(id) == slot[id].made /\ answers[id] = 0

\* C20: a WebSocket connection handles its requests one at a time, in the
\* order they came: a request that was published and is not answered yet is
\* the one request its connection awaits, so a connection has at most one
\* outstanding, has read no later request, and answers each request once.
C20_OneRequestAtATime ==
    transport = "ws" =>
        /\ \A id \in ReqIds :
              /\ Outstanding(id) => Cardinality(Awaiters(id)) = 1
              /\ answers[id] <= 1
        /\ \A c \in Conns : Awaiting(c) => Outstanding(conn[c].req)
        /\ \A c \in Conns : \A d \in Conns :
              (Awaiting(c) /\ Awaiting(d) /\ c # d) => conn[c].req # conn[d].req

\* the first connection has its first request answered and awaits the
\* answer to its second
C20_Witness ==
    /\ transport = "ws"
    /\ slot[1].made /\ answers[1] = 1 /\ out.id = 1
    /\ Awaiting(FirstConn) /\ conn[FirstConn].req = 2
    /\ inp.c = FirstConn /\ inp.id = 2
    /\ ~Awaiting("c2")

\* the world of the application that the bridge reads and writes
LiveState == <<interaction, ballCount, buttonCount>>

\* C21: the Interaction of the buttons and the counts of the entities are
\* changed by steps of the frame loop only: a step that changes them is a
\* turn of the drain loop or the end of the drain, and it receives no
\* request, sends no response, moves no handler, polls no waiter and writes
\* no file.
C21_OnlyFrameLoopWritesWorld ==
    [][LiveState' # LiveState =>
          /\ fpc = "draining"
          /\ applied' # applied \/ fpc' = "idle"
          /\ UNCHANGED <<nextReq, conn, inp, out, answers, fileExists, waiter>>
          /\ queue' = queue \/ (queue # <<>> /\ queue' = Tail(queue))]_vars

\* the frame loop has written the Interaction, and since then a waiter
\* thread has ended and a handler has answered its request with a failure
C21_Witness ==
    /\ interaction # "None"
    /\ \E id \in ReqIds : waiter[id].st = "done" /\ out.id = id /\ ~out.resp.success

\* the orders in which counts.into_iter() can give the two entries
IterationOrders(counts) ==
    {<<ComponentCount("Ball", counts.Ball), ComponentCount("Button", counts.Button)>>,
     <<ComponentCount("Button", counts.Button), ComponentCount("Ball", counts.Ball)>>}

\* C22: componentCounts answers the counts the frame loop sent with one
\* entry for Ball and one for Button, Ball first, each with the count that
\* was sent, in whichever order the map gives its entries.
C22_CountsSortedByName ==
    \A c \in Conns :
        (/\ transport = "gql" /\ Awaiting(c) /\ conn[c].type = "QueryComponents"
         /\ Outcome(c).k = "value") =>
            LET sent   == Outcome(c).v.counts
                sorted == <<[name |-> "Ball", count |-> sent.Ball],
                            [name |-> "Button", count |-> sent.Button]>>
            IN  /\ Response(c).kind = "result"
                /\ Response(c).data = sorted
                /\ \A results \in IterationOrders(sent) : sort_by_name(results) = sorted

\* a componentCounts call whose answer carries a Ball that a click spawned
C22_Witness ==
    \E c \in Conns :
        /\ transport = "gql" /\ Awaiting(c) /\ conn[c].type = "QueryComponents"
        /\ Outcome(c).k = "value"
        /\ Outcome(c).v.counts.Ball = 1
        /\ Response(c).data[1] = [name |-> "Ball", count |-> 1]

\* C23: a Hover leaves every GameButton Hovered and a Click leaves it
\* Pressed, whatever x and y it carries; the other messages and the end of
\* the drain leave the Interaction as it is, so that after a drain it is what
\* the last Hover or Click of the drain wrote.
C23_LastPointerCommandWins ==
    [][fpc = "draining" =>
          /\ (applied' # applied /\ Head(queue).type = "Hover") => interaction' = "Hovered"
          /\ (applied' # applied /\ Head(queue).type = "Click") => interaction' = "Pressed"
          /\ (applied' # applied /\ Head(queue).type \notin {"Hover", "Click"}) =>
                interaction' = interaction
          /\ applied' = applied => interaction' = interaction]_vars

\* one drain has handled a Click and then a Hover, both with an x outside
\* the window, and the buttons are Hovered
C23_Witness ==
    /\ fpc = "draining" /\ drainFrom = 0 /\ Len(applied) = 2
    /\ clicks = 1
    /\ interaction = "Hovered"
    /\ buttonCount >= 1

\* C24: the turn of the loop that takes a Hover, Click or QueryComponents
\* writes its oneshot in that same turn, so before the drain returns; the
\* turn that takes a Screenshot writes no oneshot: it spawns the waiter
\* thread, which holds the sender, and the loop goes on to its next turn.
C24_RepliesInsideDrain ==
    [][(fpc = "draining" /\ applied' # applied) =>
          LET msg == Head(queue)
              id  == msg.response
          IN  IF msg.type = "Screenshot"
              THEN /\ slot' = slot
                   /\ waiter[id].st = "none" /\ waiter'[id].st = "running"
                   /\ waiter'[id].elapsed = 0
                   /\ fpc' = "draining"
              ELSE /\ slot'[id].writes = 1 /\ slot'[id].tx = "sent"
                   /\ \A i \in ReqIds \ {id} : slot'[i] = slot[i]
                   /\ waiter' = waiter
                   /\ fpc' = "draining"]_vars

\* one drain has taken a Screenshot and then another message: the waiter
\* of the first runs with its oneshot unwritten, the second is answered
C24_Witness ==
    \E i \in ReqIds, j \in ReqIds :
        /\ fpc = "draining" /\ drainFrom = 0 /\ applied = <<i, j>>
        /\ waiter[i].st = "running" /\ slot[i].writes = 0 /\ slot[i].tx = "held"
        /\ waiter[j].st = "none" /\ slot[j].writes = 1

\* C25: in every tick handle_button_interaction runs after the drain, so
\* what a drain wrote is reacted to before its tick ends: between two ticks
\* no change of Interaction waits for a reaction, and buttons that a Click
\* left Pressed have had their Ball spawned.
C25_ReactionInSameTick ==
    (fpc = "idle" /\ Len(applied) > 0) =>
        /\ ~changed
        /\ interaction = "Pressed" => (clicks >= 1 /\ ballCount >= 1)

\* a tick has drained one Click and ended: the Ball is there
C25_Witness ==
    /\ fpc = "idle" /\ applied = <<1>> /\ clicks = 1
    /\ interaction = "Pressed" /\ ~changed
    /\ ballCount = 1

\* C26: when the sender of a oneshot is dropped with nothing sent, the
\* handler that awaits it returns at once, whatever is left of its timeout,
\* with a failure whose message is not the one of a timeout.
C26_DroppedSenderAnsweredAtOnce ==
    \A c \in Conns :
        (Awaiting(c) /\ slot[conn[c].req].tx = "dropped" /\ slot[conn[c].req].val = <<>>) =>
            /\ Outcome(c).k = "closed"
            /\ ~Response(c).success
            /\ Response(c).message # ""
            /\ Response(c).message # ws_response(conn[c].type, conn[c].path, Elapsed).message
            /\ Response(c).message # gql_response(conn[c].type, conn[c].path, Elapsed).message

\* a handler whose sender was dropped before its timeout has run out
C26_Witness ==
    \E c \in Conns :
        /\ Awaiting(c) /\ slot[conn[c].req].tx = "dropped"
        /\ conn[c].age < Secs(COMMAND_TIMEOUT_SECS)
        /\ Outcome(c).k = "closed"
        /\ Response(c).kind = "result"

\* 50, 100, 200, 400, 500: the first interval doubled until the cap
DoubledIntervals ==
    {IF InitialIntervalMs * 2^k < MaxIntervalMs THEN InitialIntervalMs * 2^k
     ELSE MaxIntervalMs : k \in 0..4}

\* C27: the waits of a waiter thread start at 50 ms and double after each
\* failed poll up to 500 ms (50, 100, 200, 400, 500, ...), and the thread
\* stops polling once 5 seconds have passed.
C27_BackoffDoubles ==
    \A i \in ReqIds :
        waiter[i].st = "running" =>
            /\ waiter[i].current_interval \in DoubledIntervals
            /\ waiter[i].elapsed <= Secs(MaxElapsedSecs)

\* the oneshot of request id was made and nothing has been sent on it
Unwritten(id) == slot[id].made /\ slot[id].tx = "held"

\* C28: while the frame loop keeps ticking, every published message has its
\* oneshot written in the end. Until then the message is in the channel,
\* from which the next drain takes it (a drain ends on an empty channel
\* only), or it is a Screenshot in the hands of a running waiter thread
\* whose five seconds are not over.
C28_EveryCommandAnswered ==
    /\ [](\A i \in ReqIds :
            Unwritten(i) =>
                \/ InChannel(i) = 1 /\ waiter[i].st = "none"
                \/ /\ InChannel(i) = 0 /\ waiter[i].st = "running"
                   /\ waiter[i].elapsed < Secs(MaxElapsedSecs) + Quantum)
    /\ \A i \in ReqIds : Unwritten(i) ~> (slot[i].made /\ slot[i].tx = "sent")

\* a Screenshot whose waiter has run out its five seconds and written false
C28_Witness ==
    \E i \in ReqIds :
        /\ slot[i].made /\ slot[i].tx = "sent"
        /\ waiter[i].st = "done"
        /\ i \in Applied

\* C29: a Screenshot is answered success = true only when the capture
\* spawned for it has written the file: the Screenshot entity of its path
\* is not waiting to be spawned or to be saved. A file that was at the path
\* before does not make the answer true.
C29_SuccessMeansCaptured ==
    \A c \in Conns :
        (/\ Awaiting(c) /\ conn[c].type = "Screenshot"
         /\ Outcome(c).k = "value" /\ Outcome(c).v.b) =>
            conn[c].path \notin captures.spawned \cup captures.live

\* C30: the frame loop drops no sender unwritten: the oneshot of a message
\* it has taken is written or is held by a running waiter thread, no sender
\* is ever dropped, and no handler that awaits gets RecvError.
C30_NoSenderDropped ==
    /\ \A i \in ReqIds :
          /\ slot[i].tx # "dropped"
          /\ (slot[i].made /\ i \in Applied) =>
                \/ slot[i].tx = "sent" /\ slot[i].writes = 1
                \/ slot[i].tx = "held" /\ waiter[i].st = "running"
    /\ \A c \in Conns : Awaiting(c) => Outcome(c).k # "closed"

\* two handlers await messages the frame loop has taken: the Screenshot of
\* one is with its waiter, unwritten, and the other has its value
C30_Witness ==
    \E c \in Conns, d \in Conns :
        /\ Awaiting(c) /\ Awaiting(d)
        /\ conn[c].req \in Applied /\ conn[d].req \in Applied
        /\ conn[c].type = "Screenshot" /\ waiter[conn[c].req].st = "running"
        /\ Outcome(c).k = "pending"
        /\ Outcome(d).k = "value"

\* C31: on the WebSocket server a frame that parses as a TestCommand gets
\* one response and no more, and no response is sent but for a frame that
\* was received: a request is answered at most once, one that was not
\* received or did not parse is not answered, the response sent last is the
\* one answer of a received request, and a parsed request that has no answer
\* yet is the one its connection's handler is working on.
C31_OneResponsePerRequest ==
    transport = "ws" =>
        /\ \A id \in ReqIds :
              /\ answers[id] <= 1
              /\ id >= nextReq => answers[id] = 0
              /\ (slot[id].made /\ answers[id] = 0) => Awaiters(id) # {}
        /\ out.id # 0 => (out.id < nextReq /\ answers[out.id] = 1)
        /\ (inp.id # 0 /\ inp.c \in Conns /\ inp.text.parses) =>
              \/ answers[inp.id] = 1
              \/ Awaiting(inp.c) /\ conn[inp.c].req = inp.id
        /\ (inp.id # 0 /\ ~inp.text.parses) => answers[inp.id] = 0

\* the first frame was rejected at once with a response, the second was
\* published and answered when its await returned
C31_Witness ==
    /\ transport = "ws"
    /\ ~slot[1].made /\ answers[1] = 1
    /\ slot[2].made /\ answers[2] = 1 /\ out.id = 2
    /\ \A c \in Conns : ~Awaiting(c)

\* C32: the turn of the loop that takes a QueryComponents or a Screenshot
\* leaves the Interaction and the counts of Ball and Button as they are;
\* the turn that takes a Hover or a Click changes the Interaction and leaves
\* the counts as they are.
C32_ArmsLeaveCounts ==
    [][(fpc = "draining" /\ applied' # applied) =>
          /\ ballCount' = ballCount
          /\ buttonCount' = buttonCount
          /\ Head(queue).type \in {"QueryComponents", "Screenshot"} =>
                (interaction' = interaction /\ changed' = changed)
          /\ Head(queue).type = "QueryComponents" => captures' = captures
          /\ Head(queue).type \in {"Hover", "Click"} =>
                (changed' /\ captures' = captures)]_vars

\* a drain has taken a Click and then a QueryComponents, which was answered
\* with no Ball yet
C32_Witness ==
    /\ fpc = "draining" /\ drainFrom = 0 /\ applied = <<1, 2>>
    /\ clicks = 1 /\ interaction = "Pressed" /\ changed
    /\ ballCount = 0
    /\ slot[2].val # <<>> /\ slot[2].val[1].t = "counts"
    /\ slot[2].val[1].counts.Ball = 0

\* the server thread has not set the channel: test mode is off, or the
\* thread is spawned and has not run yet
BeforeChannel == srv \in {"off", "spawned"}

\* C33: as long as TEST_COMMAND_CHANNEL has not been set (no test mode, or
\* the server thread has not set it yet) the ticks of the frame loop drain
\* nothing and leave the application as it started; once it is set, every
\* message published is in the channel or was taken by a tick, and a drain
\* that has come to the end of the channel has taken them all.
C33_TicksBeforeChannel ==
    /\ BeforeChannel =>
          /\ fpc = "idle" /\ applied = <<>> /\ drainSnap = <<>>
          /\ queue = <<>> /\ \A id \in ReqIds : ~slot[id].made
          /\ interaction = "None" /\ ballCount = 0 /\ buttonCount = NumGameButtons
          /\ captures = [spawned |-> {}, live |-> {}]
    /\ ~BeforeChannel =>
          \A id \in ReqIds :
              slot[id].made =>
                  /\ InChannel(id) = 1 \/ id \in Applied
                  /\ (fpc = "draining" /\ queue = <<>>) => id \in Applied

\* the server thread is spawned and has not set the channel, and a tick has
\* run: handle_button_interaction has seen the buttons that were added
C33_Witness ==
    /\ srv = "spawned"
    /\ ~changed
    /\ fpc = "idle" /\ interaction = "None" /\ ballCount = 0

====
